---- MODULE Spec2Model ----
(***************************************************************************)
(* vue-metamorph: the transform pass (parse, codemod plugins, re-render of *)
(* the <script> programs into their host text nodes, deep-diff of the      *)
(* template tree against its snapshot, reduction of the diff to changed    *)
(* nodes, MagicString updates over the original buffer).                   *)
(*                                                                         *)
(* Text is a sequence of units (one unit stands for a run of characters of *)
(* the source, e.g. "<script>", "\n", "a"); offsets and ranges count units. *)
(* JavaScript values are tagged records: objects keep their key order,     *)
(* arrays are sequences, array indices in paths are the strings "0","1".. *)
(***************************************************************************)
EXTENDS Integers, Sequences, FiniteSets, TLC

\* Longest plugin list given to transform.
MaxPlugins == 2

(***************************************************************************)
(* JavaScript values                                                       *)
(***************************************************************************)
Undef == [t |-> "undefined"]
Null == [t |-> "null"]
Str(s) == [t |-> "string", v |-> s]
Bool(b) == [t |-> "boolean", v |-> b]
Num(n) == [t |-> "number", v |-> n]
Arr(items) == [t |-> "array", items |-> items]
Obj(keys, f) == [t |-> "object", keys |-> keys, f |-> f]

IdxStr == <<"0", "1", "2", "3", "4", "5">>
IsIdx(s) == \E i \in 1..Len(IdxStr) : IdxStr[i] = s
IdxOf(s) == CHOOSE i \in 0..(Len(IdxStr) - 1) : IdxStr[i + 1] = s

\* Plain property walk: obj[p1][p2]..., undefined as soon as a step is missing.
RECURSIVE Walk(_, _)
Walk(v, path) ==
  IF path = <<>> THEN v
  ELSE IF v.t = "object"
    THEN IF Head(path) \in DOMAIN v.f THEN Walk(v.f[Head(path)], Tail(path)) ELSE Undef
  ELSE IF v.t = "array"
    THEN IF IsIdx(Head(path)) /\ IdxOf(Head(path)) < Len(v.items)
           THEN Walk(v.items[IdxOf(Head(path)) + 1], Tail(path))
           ELSE Undef
  ELSE Undef

\* lodash get(object, path): the walk, but an empty path yields undefined.
get(object, path) == IF path = <<>> THEN Undef ELSE Walk(object, path)

\* In-place assignment obj[p1]...[pn] = new, as a plugin does on the live tree.
RECURSIVE SetAt(_, _, _)
SetAt(v, path, new) ==
  IF path = <<>> THEN new
  ELSE IF v.t = "object"
    THEN [v EXCEPT !.f[Head(path)] = SetAt(@, Tail(path), new)]
  ELSE [v EXCEPT !.items[IdxOf(Head(path)) + 1] = SetAt(@, Tail(path), new)]

range(node) == IF node.t = "object" /\ "range" \in DOMAIN node.f THEN node.f.range ELSE Undef

(***************************************************************************)
(* Nodes as vue-eslint-parser emits them (key order of the parser; loc and *)
(* parent, which the diff ignores, are left out) and as the builders make  *)
(* them.                                                                   *)
(***************************************************************************)
Range(s, e) == Arr(<<Num(s), Num(e)>>)

PText(s, e, value) ==
  Obj(<<"type", "range", "value">>,
      [type |-> Str(<<"VText">>), range |-> Range(s, e), value |-> Str(value)])

PEndTag(s, e) ==
  Obj(<<"type", "range">>, [type |-> Str(<<"VEndTag">>), range |-> Range(s, e)])

PStartTag(s, e, attributes) ==
  Obj(<<"type", "range", "selfClosing", "attributes">>,
      [type |-> Str(<<"VStartTag">>), range |-> Range(s, e),
       selfClosing |-> Bool(FALSE), attributes |-> Arr(attributes)])

PElement(s, e, name, startTag, children, endTag) ==
  Obj(<<"type", "range", "name", "rawName", "startTag", "children", "endTag">>,
      [type |-> Str(<<"VElement">>), range |-> Range(s, e), name |-> Str(<<name>>),
       rawName |-> Str(<<name>>), startTag |-> startTag, children |-> Arr(children),
       endTag |-> endTag])

PIdentifier(s, e, name) ==
  Obj(<<"type", "range", "name", "rawName">>,
      [type |-> Str(<<"VIdentifier">>), range |-> Range(s, e), name |-> Str(<<name>>),
       rawName |-> Str(<<name>>)])

PDirectiveKey(s, e, name, argument) ==
  Obj(<<"type", "range", "name", "argument", "modifiers">>,
      [type |-> Str(<<"VDirectiveKey">>), range |-> Range(s, e), name |-> name,
       argument |-> argument, modifiers |-> Arr(<<>>)])

PDirective(s, e, key) ==
  Obj(<<"type", "range", "directive", "key", "value">>,
      [type |-> Str(<<"VAttribute">>), range |-> Range(s, e), directive |-> Bool(TRUE),
       key |-> key, value |-> Null])

PFragment(s, e, children) ==
  Obj(<<"type", "range", "children">>,
      [type |-> Str(<<"VDocumentFragment">>), range |-> Range(s, e),
       children |-> Arr(children)])

\* builders.ts: vText
vText(value) ==
  Obj(<<"type", "value">>, [type |-> Str(<<"VText">>), value |-> Str(value)])

(***************************************************************************)
(* Input documents and what the grammar parser returns for them            *)
(***************************************************************************)
\* <template><p v-slot:foo>t</p></template> starting at offset o (9 units).
\* The name identifier of a directive key has the "v-" prefix inside its
\* range and not in its name.
TemplateUnits ==
  <<"<template>", "<p ", "v-slot", ":", "foo", ">", "t", "</p>", "</template>">>
TemplateTree(o) ==
  PElement(o, o + 9, "template", PStartTag(o, o + 1, <<>>),
    << PElement(o + 1, o + 8, "p",
         PStartTag(o + 1, o + 6,
           << PDirective(o + 2, o + 5,
                PDirectiveKey(o + 2, o + 5, PIdentifier(o + 2, o + 3, "slot"),
                              PIdentifier(o + 4, o + 5, "foo"))) >>),
         << PText(o + 6, o + 7, <<"t">>) >>,
         PEndTag(o + 7, o + 8)) >>,
    PEndTag(o + 8, o + 9))

\* A <script> element at o whose text child is `text`.
ScriptUnits(text) == <<"<script>">> \o text \o <<"</script>">>
ScriptTree(o, text) ==
  PElement(o, o + Len(text) + 2, "script", PStartTag(o, o + 1, <<>>),
    IF text = <<>> THEN <<>> ELSE << PText(o + 1, o + 1 + Len(text), text) >>,
    PEndTag(o + 1 + Len(text), o + 2 + Len(text)))

EmptyTemplateUnits == <<"<template>", "</template>">>
EmptyTemplateTree(o) ==
  PElement(o, o + 2, "template", PStartTag(o, o + 1, <<>>), <<>>, PEndTag(o + 1, o + 2))

\* script, newline, template: three top-level siblings; the script in the
\* form the re-render produces ("\n" code "\n").
CodeCanon == ScriptUnits(<<"\n", "a", "\n">>) \o <<"\n">> \o TemplateUnits
TreeCanon ==
  PFragment(0, 15, << ScriptTree(0, <<"\n", "a", "\n">>), PText(5, 6, <<"\n">>),
                      TemplateTree(6) >>)

\* the same with the script written on one line: <script>a</script>
CodeInline == ScriptUnits(<<"a">>) \o <<"\n">> \o TemplateUnits
TreeInline ==
  PFragment(0, 13, << ScriptTree(0, <<"a">>), PText(3, 4, <<"\n">>), TemplateTree(4) >>)

\* two top-level scripts, then the template
CodeTwo == ScriptUnits(<<"\n", "a", "\n">>) \o ScriptUnits(<<"\n", "b", "\n">>) \o TemplateUnits
TreeTwo ==
  PFragment(0, 19, << ScriptTree(0, <<"\n", "a", "\n">>), ScriptTree(5, <<"\n", "b", "\n">>),
                      TemplateTree(10) >>)

\* a <script> inside the template, before the top-level <script>
CodeNested ==
  <<"<template>">> \o ScriptUnits(<<"\n", "x", "\n">>) \o <<"</template>">>
    \o ScriptUnits(<<"\n", "y", "\n">>)
TreeNested ==
  PFragment(0, 12,
    << PElement(0, 7, "template", PStartTag(0, 1, <<>>),
         << ScriptTree(1, <<"\n", "x", "\n">>) >>, PEndTag(6, 7)),
       ScriptTree(7, <<"\n", "y", "\n">>) >>)

\* a file with a script only; parseVue appends "\n<template></template>"
CodeScriptOnly == ScriptUnits(<<"\n", "a", "\n">>)
TreeScriptOnly ==
  PFragment(0, 8, << ScriptTree(0, <<"\n", "a", "\n">>), PText(5, 6, <<"\n">>),
                     EmptyTemplateTree(6) >>)

\* a script element without a text child
CodeEmptyScript == ScriptUnits(<<>>) \o EmptyTemplateUnits
TreeEmptyScript == PFragment(0, 4, << ScriptTree(0, <<>>), EmptyTemplateTree(2) >>)

\* flat code
CodeTs == <<"a", "\n">>
CodeTsNoNl == <<"a">>
CodeTsBad == <<"?">>

VueFile == <<"x", ".vue">>
TsFile == <<"x", ".ts">>

Inputs ==
  { <<VueFile, CodeCanon>>, <<VueFile, CodeInline>>, <<VueFile, CodeTwo>>,
    <<VueFile, CodeNested>>, <<VueFile, CodeScriptOnly>>, <<VueFile, CodeEmptyScript>>,
    <<TsFile, CodeTs>>, <<TsFile, CodeTsNoNl>>, <<TsFile, CodeTsBad>> }

\* vueParser.parse: the outer tree of a document (ranges into the parsed text).
vueParserParse(text) ==
  CASE text = CodeCanon -> TreeCanon
    [] text = CodeInline -> TreeInline
    [] text = CodeTwo -> TreeTwo
    [] text = CodeNested -> TreeNested
    [] text = CodeScriptOnly \o <<"\n">> \o EmptyTemplateUnits -> TreeScriptOnly
    [] text = CodeEmptyScript -> TreeEmptyScript

(***************************************************************************)
(* Text helpers                                                            *)
(***************************************************************************)
Whitespace == {"\n", " "}

RECURSIVE TrimStart(_)
TrimStart(text) ==
  IF text # <<>> /\ Head(text) \in Whitespace THEN TrimStart(Tail(text)) ELSE text

RECURSIVE TrimEnd(_)
TrimEnd(text) ==
  IF text # <<>> /\ text[Len(text)] \in Whitespace
    THEN TrimEnd(SubSeq(text, 1, Len(text) - 1))
    ELSE text

Trim(text) == TrimEnd(TrimStart(text))

\* String.prototype.slice(start, end) on units, offsets counted from 0.
Slice(text, start, end) == SubSeq(text, start + 1, end)

\* 'x'.repeat(n)
RECURSIVE Repeat(_, _)
Repeat(unit, n) == IF n <= 0 THEN <<>> ELSE <<unit>> \o Repeat(unit, n - 1)

\* number of line breaks before offset `start`: el.loc.start.line - 1
LinesBefore(text, start) == Cardinality({i \in 1..start : text[i] = "\n"})

\* code.includes('<template')
IncludesTemplate(text) == \E i \in 1..Len(text) : text[i] = "<template>"

IsMarkup(unit) ==
  unit \in {"<script>", "</script>", "<template>", "</template>", "<p ", "</p>", ">", "v-slot", ":"}

(***************************************************************************)
(* recast: parse and print of a <script> program                           *)
(***************************************************************************)
\* babelParser.parse through recast.parse: a syntax error on anything that
\* is not TypeScript, else the Program (its source, and its statements).
ParseFails(text) == \E i \in 1..Len(text) : IsMarkup(text[i]) \/ text[i] = "?"

recastParse(text) == [type |-> "Program", source |-> text, body |-> Trim(text)]

\* recast.print(program).code: the statements, reprinted from their original
\* text where untouched; the white space around the program is not part of it.
recastPrint(ast) == ast.body

\* .replace(/\/\* METAMORPH_START \*\/\n+/g, '\n')
RECURSIVE TrimStartNl(_)
TrimStartNl(text) ==
  IF text # <<>> /\ Head(text) = "\n" THEN TrimStartNl(Tail(text)) ELSE text

RECURSIVE StripMarker(_)
StripMarker(text) ==
  IF text = <<>> THEN <<>>
  ELSE IF Head(text) = "/* METAMORPH_START */" /\ Len(text) > 1 /\ text[2] = "\n"
    THEN <<"\n">> \o StripMarker(TrimStartNl(Tail(text)))
    ELSE <<Head(text)>> \o StripMarker(Tail(text))

(***************************************************************************)
(* Tree walks                                                              *)
(***************************************************************************)
IsNode(v) == v.t = "object" /\ "type" \in DOMAIN v.f

TypeOf(node) == IF IsNode(node) /\ node.f.type.t = "string" THEN node.f.type.v[1] ELSE ""

\* the keys under which a node keeps child nodes, in visit order; for a type
\* without an entry, every key of the node that holds a node or an array
VisitorKeys(node) ==
  LET type == TypeOf(node)
  IN CASE type = "VDocumentFragment" -> <<"children">>
       [] type = "VElement" -> <<"startTag", "children", "endTag">>
       [] type = "VStartTag" -> <<"attributes">>
       [] type = "VAttribute" -> <<"key", "value">>
       [] type = "VDirectiveKey" -> <<"name", "argument", "modifiers">>
       [] type \in {"VText", "VEndTag", "VIdentifier"} -> <<>>
       [] OTHER -> IF node.t = "object"
                     THEN SelectSeq(node.keys,
                            LAMBDA k : node.f[k].t = "array" \/ IsNode(node.f[k]))
                     ELSE <<>>

\* AST.traverseNodes: the paths of the nodes of `tree` below and including
\* `path`, in the order enterNode sees them (document order, depth first).
RECURSIVE traverseNodes(_, _)
RECURSIVE TraverseKeys(_, _, _)
RECURSIVE TraverseItems(_, _, _)
traverseNodes(tree, path) ==
  <<path>> \o TraverseKeys(tree, path, VisitorKeys(Walk(tree, path)))

TraverseKeys(tree, path, keys) ==
  IF keys = <<>> THEN <<>>
  ELSE LET child == Walk(tree, Append(path, Head(keys)))
       IN (IF child.t = "array" THEN TraverseItems(tree, Append(path, Head(keys)), 1)
           ELSE IF IsNode(child) THEN traverseNodes(tree, Append(path, Head(keys)))
           ELSE <<>>)
          \o TraverseKeys(tree, path, Tail(keys))

TraverseItems(tree, path, i) ==
  IF i > Len(Walk(tree, path).items) THEN <<>>
  ELSE (IF IsNode(Walk(tree, Append(path, IdxStr[i])))
          THEN traverseNodes(tree, Append(path, IdxStr[i]))
          ELSE <<>>)
       \o TraverseItems(tree, path, i + 1)

\* setParents: node.parent of the node at `path` is the node that holds it,
\* one step up for a property, two for an element of an array property.
setParents(path) ==
  IF path = <<>> THEN <<>>
  ELSE IF IsIdx(path[Len(path)]) THEN SubSeq(path, 1, Len(path) - 2)
  ELSE SubSeq(path, 1, Len(path) - 1)

IsScriptElement(node) ==
  /\ TypeOf(node) = "VElement"
  /\ node.f.name = Str(<<"script">>)

\* findAll(fragment, {type: 'VElement', name: 'script'})
findAll(tree) ==
  SelectSeq(traverseNodes(tree, <<>>), LAMBDA p : IsScriptElement(Walk(tree, p)))

(***************************************************************************)
(* deep-diff                                                               *)
(***************************************************************************)
ignoreProperties == {"parent", "loc", "range", "variables"}

\* (_, name) => !!ignoreProperties[name]
prefilter(path, name) == name \in ignoreProperties

\* deepDiff(lhs, rhs, prefilter): the changes in the order deep-diff lists
\* them. Objects: the keys of lhs in their order, then the keys only rhs has.
\* Arrays: the surplus indices from the top down (kind A, at the array's
\* path), then the common indices from the top down.
RECURSIVE deepDiff(_, _, _)
RECURSIVE DiffKeys(_, _, _, _)
RECURSIVE DiffNewKeys(_, _, _, _)
RECURSIVE DiffSurplus(_, _, _, _)
RECURSIVE DiffItems(_, _, _, _)
deepDiff(lhs, rhs, path) ==
  IF lhs.t = "undefined" /\ rhs.t # "undefined" THEN <<[kind |-> "N", path |-> path]>>
  ELSE IF rhs.t = "undefined" /\ lhs.t # "undefined" THEN <<[kind |-> "D", path |-> path]>>
  ELSE IF lhs.t # rhs.t THEN <<[kind |-> "E", path |-> path]>>
  ELSE IF lhs.t = "object"
    THEN DiffKeys(lhs, rhs, path, 1) \o DiffNewKeys(lhs, rhs, path, 1)
  ELSE IF lhs.t = "array"
    THEN DiffSurplus(lhs, rhs, path, Len(rhs.items)) \o DiffSurplus(rhs, lhs, path, Len(lhs.items))
         \o DiffItems(lhs, rhs, path,
                      IF Len(lhs.items) < Len(rhs.items) THEN Len(lhs.items) ELSE Len(rhs.items))
  ELSE IF lhs # rhs THEN <<[kind |-> "E", path |-> path]>>
  ELSE <<>>

DiffKeys(lhs, rhs, path, i) ==
  IF i > Len(lhs.keys) THEN <<>>
  ELSE LET k == lhs.keys[i]
       IN (IF prefilter(path, k) THEN <<>>
           ELSE deepDiff(lhs.f[k], IF k \in DOMAIN rhs.f THEN rhs.f[k] ELSE Undef,
                         Append(path, k)))
          \o DiffKeys(lhs, rhs, path, i + 1)

DiffNewKeys(lhs, rhs, path, i) ==
  IF i > Len(rhs.keys) THEN <<>>
  ELSE LET k == rhs.keys[i]
       IN (IF k \in DOMAIN lhs.f \/ prefilter(path, k) THEN <<>>
           ELSE deepDiff(Undef, rhs.f[k], Append(path, k)))
          \o DiffNewKeys(lhs, rhs, path, i + 1)

\* one kind-A change per index that `longer` has and `shorter` has not
DiffSurplus(shorter, longer, path, i) ==
  IF i <= Len(shorter.items) THEN <<>>
  ELSE <<[kind |-> "A", path |-> path]>> \o DiffSurplus(shorter, longer, path, i - 1)

DiffItems(lhs, rhs, path, i) ==
  IF i < 1 THEN <<>>
  ELSE (IF prefilter(path, IdxStr[i]) THEN <<>>
        ELSE deepDiff(lhs.items[i], rhs.items[i], Append(path, IdxStr[i])))
       \o DiffItems(lhs, rhs, path, i - 1)

(***************************************************************************)
(* stringify: the canonical text of a node and its subtree                 *)
(***************************************************************************)
RECURSIVE stringify(_)
RECURSIVE StringifyAll(_)
stringify(node) ==
  LET type == TypeOf(node)
  IN CASE type = "VText" -> node.f.value.v
       [] type = "VIdentifier" -> node.f.rawName.v
       [] type = "VDirectiveKey" ->
            <<"v-">> \o stringify(node.f.name)
              \o (IF node.f.argument.t = "null" THEN <<>>
                  ELSE <<":">> \o stringify(node.f.argument))
       [] type = "VAttribute" -> stringify(node.f.key)
       [] type = "VStartTag" ->
            <<"<">> \o StringifyAll(node.f.attributes.items) \o <<">">>
       [] type = "VElement" ->
            node.f.name.v \o stringify(node.f.startTag) \o StringifyAll(node.f.children.items)
              \o (IF node.f.endTag.t = "null" THEN <<>> ELSE <<"</">> \o node.f.name.v)
       [] type = "VDocumentFragment" -> StringifyAll(node.f.children.items)
       [] OTHER -> <<>>

StringifyAll(nodes) ==
  IF nodes = <<>> THEN <<>> ELSE stringify(Head(nodes)) \o StringifyAll(Tail(nodes))

(***************************************************************************)
(* MagicString: replacements keyed to offsets of the original text         *)
(***************************************************************************)
MagicString(text) == [original |-> text, edits |-> <<>>]

Overlap(a, b) == a.start < b.end /\ b.start < a.end

\* update(start, end, content) throws: end out of bounds, an empty range, or
\* a range that cuts into text already replaced.
UpdateThrows(ms, start, end) ==
  \/ end > Len(ms.original)
  \/ start >= end
  \/ \E i \in 1..Len(ms.edits) : Overlap(ms.edits[i], [start |-> start, end |-> end])

update(ms, start, end, content) ==
  [ms EXCEPT !.edits = Append(@, [start |-> start, end |-> end, content |-> content])]

\* toString(): the original with every replaced range substituted
RECURSIVE ToStringFrom(_, _)
ToStringFrom(ms, pos) ==
  IF pos >= Len(ms.original) THEN <<>>
  ELSE IF \E i \in 1..Len(ms.edits) : ms.edits[i].start = pos
    THEN LET i == CHOOSE j \in 1..Len(ms.edits) : ms.edits[j].start = pos
         IN ms.edits[i].content \o ToStringFrom(ms, ms.edits[i].end)
    ELSE <<ms.original[pos + 1]>> \o ToStringFrom(ms, pos + 1)

toString(ms) == ToStringFrom(ms, 0)

(***************************************************************************)
(* parseVue / parseTs                                                      *)
(***************************************************************************)
\* parseVue(code). The caller reads the result as { scriptASTs, sfcAST }:
\* vueAst is the document fragment (sfcAST.templateBody.parent), scripts the
\* script elements findAll returned, scriptAsts their programs in that order.
parseVue(code) ==
  LET text == IF IncludesTemplate(code) THEN code
              ELSE code \o <<"\n", "<template>", "</template>">>
      vueAst == vueParserParse(text)
      scripts == findAll(vueAst)
      \* blankLines + code.slice(start, end), start and end those of the first
      \* child; both undefined without one, and slice() is then the whole text
      Source(p) ==
        LET el == Walk(vueAst, p)
            child == Walk(el, <<"children", "0">>)
            blankLines == Repeat("\n", LinesBefore(text, range(el).items[1].v))
        IN blankLines \o (IF child.t = "undefined" THEN text
                          ELSE Slice(text, range(child).items[1].v, range(child).items[2].v))
  IN [threw |-> \E i \in 1..Len(scripts) : ParseFails(Source(scripts[i])),
      vueAst |-> vueAst,
      scripts |-> scripts,
      scriptAsts |-> [i \in 1..Len(scripts) |-> recastParse(Source(scripts[i]))]]

parseTs(code) == [threw |-> ParseFails(code), ast |-> recastParse(code)]

(***************************************************************************)
(* Codemod plugins: what a plugin's transform does to the trees it is      *)
(* handed, and the count it returns.                                       *)
(***************************************************************************)
PathP == <<"children", "2", "children", "0">>
PathText == PathP \o <<"children", "0">>
PathKey == PathP \o <<"startTag", "attributes", "0", "key">>

Codemods ==
  { [name |-> "text", op |-> "setValue", at |-> PathText, n |-> 0],
    [name |-> "directive", op |-> "setKeyName", at |-> PathKey, n |-> 0],
    [name |-> "selfclose", op |-> "dropEndTag", at |-> PathP, n |-> 0],
    [name |-> "remove", op |-> "removeChild", at |-> <<>>, n |-> 1],
    [name |-> "append", op |-> "appendChild", at |-> <<>>, n |-> 0],
    [name |-> "appendDeep", op |-> "appendChild", at |-> PathP, n |-> 0],
    [name |-> "retype", op |-> "setType", at |-> <<>>, n |-> 0],
    [name |-> "script0", op |-> "editScript", at |-> <<>>, n |-> 0],
    [name |-> "throw", op |-> "throw", at |-> <<>>, n |-> 0] }

RemoveAt(items, i) == SubSeq(items, 1, i - 1) \o SubSeq(items, i + 1, Len(items))

HasChildren(node) == IsNode(node) /\ "children" \in DOMAIN node.f /\ node.f.children.t = "array"

\* codemod.transform({ scriptASTs, sfcAST, ... }): the trees after the call
\* and the count returned. A plugin whose target is not in the document
\* changes nothing and returns 0.
Transform(codemod, asts, sfcAST) ==
  LET target == Walk(sfcAST, codemod.at)
      same == [asts |-> asts, sfcAST |-> sfcAST, count |-> 0]
  IN CASE codemod.op = "setValue" /\ TypeOf(target) = "VText" ->
            [same EXCEPT !.sfcAST = SetAt(sfcAST, codemod.at \o <<"value">>, Str(<<"u">>)),
                         !.count = 1]
       [] codemod.op = "setKeyName" /\ TypeOf(target) = "VDirectiveKey" ->
            [same EXCEPT !.sfcAST =
                SetAt(SetAt(sfcAST, codemod.at \o <<"name", "name">>, Str(<<"bind">>)),
                      codemod.at \o <<"name", "rawName">>, Str(<<"bind">>)),
                         !.count = 2]
       [] codemod.op = "dropEndTag" /\ TypeOf(target) = "VElement" ->
            [same EXCEPT !.sfcAST = SetAt(sfcAST, codemod.at \o <<"endTag">>, Null),
                         !.count = 1]
       [] codemod.op = "removeChild" /\ HasChildren(target)
            /\ codemod.n < Len(target.f.children.items) ->
            [same EXCEPT !.sfcAST =
                SetAt(sfcAST, codemod.at \o <<"children">>,
                      Arr(RemoveAt(target.f.children.items, codemod.n + 1))),
                         !.count = 1]
       [] codemod.op = "appendChild" /\ HasChildren(target) ->
            [same EXCEPT !.sfcAST =
                SetAt(sfcAST, codemod.at \o <<"children">>,
                      Arr(Append(target.f.children.items, vText(<<"n">>)))),
                         !.count = 1]
       [] codemod.op = "setType" /\ IsNode(target) ->
            [same EXCEPT !.sfcAST = SetAt(sfcAST, codemod.at \o <<"type">>, Str(<<"Changed">>)),
                         !.count = 1]
       [] codemod.op = "editScript" /\ codemod.n < Len(asts) ->
            [same EXCEPT !.asts[codemod.n + 1].body = <<"z">>, !.count = 1]
       [] OTHER -> same

\* the call returns normally whatever the plugin does
ThrowsSwallowed(codemod) == FALSE

Throws(codemod) == codemod.op = "throw"

\* the pair goes to the front of the list
PushStatFront(list, name, count) == <<<<name, count>>>> \o list

\* stats.push([codemod.name, count])
PushStat(list, name, count) == Append(list, <<name, count>>)

RECURSIVE SeqsUpTo(_, _)
SeqsUpTo(S, n) ==
  IF n = 0 THEN {<<>>}
  ELSE SeqsUpTo(S, n - 1) \cup {Append(q, e) : q \in SeqsUpTo(S, n - 1), e \in S}

(***************************************************************************)
(* transformVueFile: the pieces of the pass                                *)
(***************************************************************************)
\* The enterNode callback over the nodes in visit order, with its counter i:
\* a script element that is a child of the root and whose first child is a
\* VText gets the print of scriptASTs[i] as that child's value.
RECURSIVE EnterNodes(_, _, _, _, _)
EnterNodes(tree, asts, nodes, i, hosts) ==
  IF nodes = <<>> THEN [threw |-> FALSE, tree |-> tree, hosts |-> hosts]
  ELSE LET path == Head(nodes)
           node == Walk(tree, path)
       IN IF /\ IsScriptElement(node)
             /\ path # <<>> /\ setParents(path) = <<>>
             /\ Walk(node, <<"children", "0", "type">>) = Str(<<"VText">>)
            THEN IF i >= Len(asts)
                   THEN [threw |-> TRUE, tree |-> tree, hosts |-> hosts]
                   ELSE LET newCode == StripMarker(recastPrint(asts[i + 1]))
                            value == (IF newCode # <<>> /\ Head(newCode) = "\n"
                                        THEN <<>> ELSE <<"\n">>)
                                     \o newCode \o <<"\n">>
                        IN EnterNodes(SetAt(tree, path \o <<"children", "0", "value">>,
                                            Str(value)),
                                      asts, Tail(nodes), i + 1, Append(hosts, path))
            ELSE EnterNodes(tree, asts, Tail(nodes), i, hosts)

Pop(path) == IF path = <<>> THEN <<>> ELSE SubSeq(path, 1, Len(path) - 1)

\* path.at(-k)
At(path, k) == IF k <= Len(path) THEN path[Len(path) + 1 - k] ELSE ""

\* the owner path without the promotion past a sub-key of a directive key
OwnerPathNoKeyCase(p) ==
  LET path1 == Pop(p.path)
  IN IF At(path1, 1) = "startTag" THEN Pop(path1) ELSE path1

\* the path to the node that owns the changed property
OwnerPath(p) ==
  LET path1 == Pop(p.path)
      path2 == IF At(path1, 1) = "startTag" THEN Pop(path1) ELSE path1
  IN IF At(path2, 2) = "key" THEN Pop(path2) ELSE path2

\* path.length <= 3 && p.kind !== 'E'
ChangesRoot(path, p) == Len(path) <= 3 /\ p.kind # "E"

\* a comparator that matches equal paths only
SamePathOnly(a, b) == a.path = b.path

\* the comparator handed to uniqWith
SamePathOrAncestor(a, b) ==
  IF Len(a.path) = Len(b.path) THEN a.path = b.path
  ELSE LET lesser == IF Len(a.path) < Len(b.path) THEN a ELSE b
           greater == IF lesser = a THEN b ELSE a
       IN lesser.path = SubSeq(greater.path, 1, Len(lesser.path))

\* lodash uniqWith: an element is kept unless the comparator matches it with
\* an element kept before it
RECURSIVE UniqFrom(_, _, _)
UniqFrom(array, i, kept) ==
  IF i > Len(array) THEN kept
  ELSE UniqFrom(array, i + 1,
         IF \E j \in 1..Len(kept) : SamePathOrAncestor(array[i], kept[j])
           THEN kept ELSE Append(kept, array[i]))

uniqWith(array) == UniqFrom(array, 1, <<>>)

(***************************************************************************)
(* State                                                                   *)
(***************************************************************************)
VARIABLES
  filename,          \* transform's arguments
  code,
  plugins,
  pc,                \* where the pass is
  scripts,           \* parseVue: the script elements (paths), in findAll's order
  scriptASTs,
  templateAst,       \* the live tree the plugins mutate
  originalTemplate,  \* its snapshot
  stats,
  rendered,          \* rendered[k]: the host whose text got the print of scriptASTs[k-1]
  diff,
  rootNodeChanged,
  changedNodes,
  collapsedChanges,
  ms,
  result,            \* what transform returned
  error              \* what it threw

vars == <<filename, code, plugins, pc, scripts, scriptASTs, templateAst, originalTemplate,
          stats, rendered, diff, rootNodeChanged, changedNodes, collapsedChanges, ms,
          result, error>>

None == [t |-> "none"]

Init ==
  /\ \E in \in Inputs : filename = in[1] /\ code = in[2]
  /\ plugins \in SeqsUpTo(Codemods, MaxPlugins)
  /\ pc = "transform"
  /\ scripts = <<>>
  /\ scriptASTs = <<>>
  /\ templateAst = Null
  /\ originalTemplate = Null
  /\ stats = <<>>
  /\ rendered = <<>>
  /\ diff = <<>>
  /\ rootNodeChanged = FALSE
  /\ changedNodes = <<>>
  /\ collapsedChanges = <<>>
  /\ ms = MagicString(<<>>)
  /\ result = None
  /\ error = "none"

Raise(kind) == pc' = "error" /\ error' = kind

\* transform: dispatch on the file name
transform ==
  /\ pc = "transform"
  /\ pc' = IF filename[Len(filename)] = ".vue" THEN "transformVueFile"
           ELSE "transformTypescriptFile"
  /\ UNCHANGED <<filename, code, plugins, scripts, scriptASTs, templateAst, originalTemplate,
                 stats, rendered, diff, rootNodeChanged, changedNodes, collapsedChanges, ms,
                 result, error>>

\* transformVueFile: new MagicString, parseVue, cloneDeep
VueParse ==
  /\ pc = "transformVueFile"
  /\ LET parsed == parseVue(code)
     IN IF parsed.threw
          THEN /\ Raise("ParseError")
               /\ UNCHANGED <<scripts, scriptASTs, templateAst, originalTemplate, ms>>
          ELSE /\ ms' = MagicString(code)
               /\ scripts' = parsed.scripts
               /\ scriptASTs' = parsed.scriptAsts
               /\ templateAst' = parsed.vueAst
               /\ originalTemplate' = parsed.vueAst
               /\ pc' = "vueCodemods"
               /\ UNCHANGED error
  /\ UNCHANGED <<filename, code, plugins, stats, rendered, diff, rootNodeChanged,
                 changedNodes, collapsedChanges, result>>

\* one turn of the loop over codemods
VueCodemod ==
  /\ pc = "vueCodemods"
  /\ Len(stats) < Len(plugins)
  /\ LET codemod == plugins[Len(stats) + 1]
         after == Transform(codemod, scriptASTs, templateAst)
     IN IF Throws(codemod)
          THEN /\ Raise("PluginError")
               /\ UNCHANGED <<scriptASTs, templateAst, stats>>
          ELSE /\ scriptASTs' = after.asts
               /\ templateAst' = after.sfcAST
               /\ stats' = PushStat(stats, codemod.name, after.count)
               /\ UNCHANGED <<pc, error>>
  /\ UNCHANGED <<filename, code, plugins, scripts, originalTemplate, rendered, diff,
                 rootNodeChanged, changedNodes, collapsedChanges, ms, result>>

\* setParents, then the traversal that prints the scripts into their hosts
RenderScripts ==
  /\ pc = "vueCodemods"
  /\ Len(stats) = Len(plugins)
  /\ LET done == EnterNodes(templateAst, scriptASTs, traverseNodes(templateAst, <<>>), 0, <<>>)
     IN IF done.threw
          THEN Raise("TypeError") /\ UNCHANGED <<templateAst, rendered>>
          ELSE /\ templateAst' = done.tree
               /\ rendered' = done.hosts
               /\ pc' = "diff"
               /\ UNCHANGED error
  /\ UNCHANGED <<filename, code, plugins, scripts, scriptASTs, originalTemplate, stats, diff,
                 rootNodeChanged, changedNodes, collapsedChanges, ms, result>>

\* deepDiff of the snapshot and the live tree; undefined when nothing differs
Diff ==
  /\ pc = "diff"
  /\ diff' = deepDiff(originalTemplate, templateAst, <<>>)
  /\ pc' = IF diff' = <<>> THEN "return" ELSE "map"
  /\ UNCHANGED <<filename, code, plugins, scripts, scriptASTs, templateAst, originalTemplate,
                 stats, rendered, rootNodeChanged, changedNodes, collapsedChanges, ms,
                 result, error>>

\* diff.map, one change: its owner path, the root flag, the original range
MapChange ==
  /\ pc = "map"
  /\ Len(changedNodes) < Len(diff)
  /\ LET p == diff[Len(changedNodes) + 1]
         path == OwnerPath(p)
         flag == rootNodeChanged \/ ChangesRoot(path, p)
         originalNode == IF flag THEN originalTemplate ELSE get(originalTemplate, path)
     IN IF range(originalNode).t = "undefined"
          THEN Raise("TypeError") /\ UNCHANGED <<rootNodeChanged, changedNodes>>
          ELSE /\ rootNodeChanged' = flag
               /\ changedNodes' =
                    Append(changedNodes,
                      [path |-> path,
                       start |-> range(originalNode).items[1].v,
                       end |-> range(originalNode).items[2].v,
                       node |-> IF Len(path) = 0 THEN templateAst
                                ELSE get(templateAst, path)])
               /\ UNCHANGED <<pc, error>>
  /\ UNCHANGED <<filename, code, plugins, scripts, scriptASTs, templateAst, originalTemplate,
                 stats, rendered, diff, collapsedChanges, ms, result>>

\* rootNodeChanged: one update over the root's original range
RootReprint ==
  /\ pc = "map"
  /\ Len(changedNodes) = Len(diff)
  /\ rootNodeChanged
  /\ LET start == range(originalTemplate).items[1].v
         end == range(originalTemplate).items[2].v
     IN IF UpdateThrows(ms, start, end)
          THEN Raise("RangeError") /\ UNCHANGED ms
          ELSE /\ ms' = update(ms, start, end, stringify(templateAst))
               /\ pc' = "return"
               /\ UNCHANGED error
  /\ UNCHANGED <<filename, code, plugins, scripts, scriptASTs, templateAst, originalTemplate,
                 stats, rendered, diff, rootNodeChanged, changedNodes, collapsedChanges,
                 result>>

\* otherwise: collapse the changed nodes
Collapse ==
  /\ pc = "map"
  /\ Len(changedNodes) = Len(diff)
  /\ ~rootNodeChanged
  /\ collapsedChanges' = uniqWith(changedNodes)
  /\ pc' = "update"
  /\ UNCHANGED <<filename, code, plugins, scripts, scriptASTs, templateAst, originalTemplate,
                 stats, rendered, diff, rootNodeChanged, changedNodes, ms, result, error>>

\* one turn of the loop over collapsedChanges
Update ==
  /\ pc = "update"
  /\ Len(ms.edits) < Len(collapsedChanges)
  /\ LET c == collapsedChanges[Len(ms.edits) + 1]
     IN IF UpdateThrows(ms, c.start, c.end)
          THEN Raise("RangeError") /\ UNCHANGED ms
          ELSE /\ ms' = update(ms, c.start, c.end, stringify(c.node))
               /\ UNCHANGED <<pc, error>>
  /\ UNCHANGED <<filename, code, plugins, scripts, scriptASTs, templateAst, originalTemplate,
                 stats, rendered, diff, rootNodeChanged, changedNodes, collapsedChanges,
                 result>>

\* return { code: ms.toString(), stats }
VueReturn ==
  /\ \/ pc = "return"
     \/ pc = "update" /\ Len(ms.edits) = Len(collapsedChanges)
  /\ result' = [code |-> toString(ms), stats |-> stats]
  /\ pc' = "done"
  /\ UNCHANGED <<filename, code, plugins, scripts, scriptASTs, templateAst, originalTemplate,
                 stats, rendered, diff, rootNodeChanged, changedNodes, collapsedChanges, ms,
                 error>>

(***************************************************************************)
(* transformTypescriptFile                                                 *)
(***************************************************************************)
TsParse ==
  /\ pc = "transformTypescriptFile"
  /\ LET parsed == parseTs(code)
     IN IF parsed.threw
          THEN Raise("ParseError") /\ UNCHANGED scriptASTs
          ELSE scriptASTs' = <<parsed.ast>> /\ pc' = "tsCodemods" /\ UNCHANGED error
  /\ UNCHANGED <<filename, code, plugins, scripts, templateAst, originalTemplate, stats,
                 rendered, diff, rootNodeChanged, changedNodes, collapsedChanges, ms, result>>

TsCodemod ==
  /\ pc = "tsCodemods"
  /\ Len(stats) < Len(plugins)
  /\ LET codemod == plugins[Len(stats) + 1]
         after == Transform(codemod, scriptASTs, Null)
     IN IF Throws(codemod)
          THEN Raise("PluginError") /\ UNCHANGED <<scriptASTs, stats>>
          ELSE /\ scriptASTs' = after.asts
               /\ stats' = PushStat(stats, codemod.name, after.count)
               /\ UNCHANGED <<pc, error>>
  /\ UNCHANGED <<filename, code, plugins, scripts, templateAst, originalTemplate, rendered,
                 diff, rootNodeChanged, changedNodes, collapsedChanges, ms, result>>

\* return { code: `${recast.print(ast).code}\n`, stats }
TsReturn ==
  /\ pc = "tsCodemods"
  /\ Len(stats) = Len(plugins)
  /\ result' = [code |-> recastPrint(scriptASTs[1]) \o <<"\n">>, stats |-> stats]
  /\ pc' = "done"
  /\ UNCHANGED <<filename, code, plugins, scripts, scriptASTs, templateAst, originalTemplate,
                 stats, rendered, diff, rootNodeChanged, changedNodes, collapsedChanges, ms,
                 error>>

Next ==
  \/ transform
  \/ VueParse
  \/ VueCodemod
  \/ RenderScripts
  \/ Diff
  \/ MapChange
  \/ RootReprint
  \/ Collapse
  \/ Update
  \/ VueReturn
  \/ TsParse
  \/ TsCodemod
  \/ TsReturn

Spec == Init /\ [][Next]_vars

(***************************************************************************)
(* What the properties are stated over                                     *)
(***************************************************************************)
IsVue == filename[Len(filename)] = ".vue"

\* the trees as parsed, before any plugin ran
ParsedOf ==
  [in \in Inputs |->
     IF in[1] = VueFile
       THEN LET parsed == parseVue(in[2])
            IN [threw |-> parsed.threw, asts |-> parsed.scriptAsts, sfcAST |-> parsed.vueAst]
       ELSE [threw |-> parseTs(in[2]).threw, asts |-> <<parseTs(in[2]).ast>>,
             sfcAST |-> Null]]

ParsedTrees == ParsedOf[<<filename, code>>]

\* the trees after the first n plugins ran one after the other, with the
\* (name, count) pairs they returned
RECURSIVE AfterPlugins(_, _)
AfterPlugins(parsed, n) ==
  IF n = 0 THEN [asts |-> parsed.asts, sfcAST |-> parsed.sfcAST, stats |-> <<>>]
  ELSE LET before == AfterPlugins(parsed, n - 1)
           after == Transform(plugins[n], before.asts, before.sfcAST)
       IN [asts |-> after.asts, sfcAST |-> after.sfcAST,
           stats |-> Append(before.stats, <<plugins[n].name, after.count>>)]

ChangesTrees(parsed, codemod) ==
  LET after == Transform(codemod, parsed.asts, parsed.sfcAST)
  IN after.asts # parsed.asts \/ after.sfcAST # parsed.sfcAST

\* codemod is the only plugin of the list that changes a tree
OnlyMutation(codemod) ==
  LET parsed == ParsedTrees
  IN \E i \in 1..Len(plugins) :
       /\ plugins[i] = codemod
       /\ ChangesTrees(parsed, codemod)
       /\ \A j \in 1..Len(plugins) : j # i => ~ChangesTrees(parsed, plugins[j])

MutatesNothing ==
  LET parsed == ParsedTrees
  IN \A i \in 1..Len(plugins) : ~ChangesTrees(parsed, plugins[i])

SpanOf(node) == [start |-> range(node).items[1].v, end |-> range(node).items[2].v]

Span(edit) == [start |-> edit.start, end |-> edit.end]

Spans == {Span(ms.edits[i]) : i \in 1..Len(ms.edits)}

ProperPrefix(a, b) == Len(a) < Len(b) /\ a = SubSeq(b, 1, Len(a))

\* how much longer the text before original offset q got by the replacements
RECURSIVE GrowthBefore(_, _)
GrowthBefore(q, i) ==
  IF i = 0 THEN 0
  ELSE GrowthBefore(q, i - 1)
       + (IF ms.edits[i].end <= q
            THEN Len(ms.edits[i].content) - (ms.edits[i].end - ms.edits[i].start)
            ELSE 0)

\* every unit of the input outside the replaced spans is in the output, in
\* the same order, and the output holds nothing else but the replacements
OutsideSpansUnchanged ==
  /\ Len(result.code) = Len(code) + GrowthBefore(Len(code), Len(ms.edits))
  /\ \A q \in 0..(Len(code) - 1) :
       (\A i \in 1..Len(ms.edits) : ~(ms.edits[i].start <= q /\ q < ms.edits[i].end))
         => result.code[q + 1 + GrowthBefore(q, Len(ms.edits))] = code[q + 1]

\* the text children of the script elements that are children of the root
HostTextSpans ==
  {SpanOf(Walk(originalTemplate, <<"children", IdxStr[i], "children", "0">>)) :
     i \in {j \in 1..Len(originalTemplate.f.children.items) :
              /\ IsScriptElement(originalTemplate.f.children.items[j])
              /\ Walk(originalTemplate.f.children.items[j], <<"children", "0">>).t = "object"}}

(***************************************************************************)
(* C1  Identity: a pass whose plugins mutate nothing returns the input     *)
(* text unchanged, for composite documents and for flat code.              *)
(***************************************************************************)
C1_Identity ==
  (pc = "done" /\ MutatesNothing) => result.code = code

(***************************************************************************)
(* C2  Localization: when the only mutation is an edit of one leaf node's  *)
(* value, exactly one replacement is applied, its span is that leaf's      *)
(* range in the snapshot, and the input outside that span is unchanged.    *)
(***************************************************************************)
IsLeafEdit(codemod) == codemod.op \in {"setValue", "setKeyName"}

\* the leaf whose value the plugin edits
LeafPath(codemod) ==
  IF codemod.op = "setKeyName" THEN codemod.at \o <<"name">> ELSE codemod.at

RepaintPath(codemod) == codemod.at

C3_AncestorKept ==
  (pc \in {"update", "done"} /\ ~rootNodeChanged /\ diff # <<>>)
    => \A i \in 1..Len(changedNodes) :
         LET covered == \E j \in 1..Len(changedNodes) :
                          ProperPrefix(changedNodes[j].path, changedNodes[i].path)
             kept == {k \in 1..Len(collapsedChanges) :
                        collapsedChanges[k].path = changedNodes[i].path}
         IN IF covered THEN kept = {} ELSE Cardinality(kept) = 1

(***************************************************************************)
(* C4  Root fallback: when a change of kind New, Delete or Array has an    *)
(* owner path of length <= 3, the pass applies exactly one replacement,    *)
(* the root's original span with the rendering of the mutated root.        *)
(***************************************************************************)
ShallowStructuralChange ==
  \E i \in 1..Len(diff) : diff[i].kind # "E" /\ Len(OwnerPath(diff[i])) <= 3

C4_RootFallback ==
  (pc \in {"done", "error"} /\ ShallowStructuralChange)
    => ms.edits = << [start |-> SpanOf(originalTemplate).start,
                      end |-> SpanOf(originalTemplate).end,
                      content |-> stringify(templateAst)] >>

(***************************************************************************)
(* C5  Non-overlap: when root-changed is not set, no record that survives  *)
(* the collapse has a path equal to or a prefix of another survivor's      *)
(* path, and no two applied replacements overlap.                          *)
(***************************************************************************)
C5_NonOverlap ==
  ~rootNodeChanged
    => /\ \A i, j \in 1..Len(collapsedChanges) :
            i # j => /\ collapsedChanges[i].path # collapsedChanges[j].path
                     /\ ~ProperPrefix(collapsedChanges[i].path, collapsedChanges[j].path)
       /\ \A i, j \in 1..Len(ms.edits) :
            i # j => ~Overlap(ms.edits[i], ms.edits[j])

C5_Witness ==
  /\ pc = "done"
  /\ ~rootNodeChanged
  /\ Len(ms.edits) >= 2
  /\ Len(collapsedChanges) < Len(changedNodes)
  /\ \E i, j \in 1..Len(changedNodes) :
       ProperPrefix(changedNodes[i].path, changedNodes[j].path)

(***************************************************************************)
(* C6  Positional correspondence: the program printed into a host script   *)
(* is the one that was parsed from that host.                              *)
(***************************************************************************)
C6_HostGetsItsOwnTree ==
  \A k \in 1..Len(rendered) : rendered[k] = scripts[k]

(***************************************************************************)
(* C7  Composite round-trip: when the plugins mutate one embedded program  *)
(* only, exactly one replacement is applied, its span is the original      *)
(* range of that program's host text, and the rest of the input is         *)
(* unchanged.                                                              *)
(***************************************************************************)
C7_CompositeRoundTrip ==
  \A codemod \in Codemods :
    (pc = "done" /\ IsVue /\ codemod.op = "editScript" /\ OnlyMutation(codemod))
      => /\ Len(ms.edits) = 1
         /\ Spans = {SpanOf(Walk(originalTemplate,
                                 scripts[codemod.n + 1] \o <<"children", "0">>))}
         /\ OutsideSpansUnchanged

(***************************************************************************)
(* C8  Plugin ordering and stats: the plugins run once each in the order   *)
(* given, each on the trees as the plugins before it left them; stats has  *)
(* one (name, count) pair per plugin run, in that order; every plugin has  *)
(* run before the diff is computed.                                        *)
(***************************************************************************)
C8_PluginOrder ==
  /\ Len(stats) <= Len(plugins)
  /\ pc \in {"vueCodemods", "tsCodemods"}
       => LET ran == AfterPlugins(ParsedTrees, Len(stats))
          IN /\ stats = ran.stats
             /\ scriptASTs = ran.asts
             /\ templateAst = ran.sfcAST
  /\ pc \in {"diff", "map", "update", "return", "done"} => Len(stats) = Len(plugins)
  /\ pc = "done" => /\ result.stats = AfterPlugins(ParsedTrees, Len(plugins)).stats
                    /\ result.stats = stats

\* the second plugin found the tree as the first left it: it returns 0
\* where on the parsed tree it would have returned 1
C8_Witness ==
  /\ pc = "done"
  /\ Len(plugins) = 2
  /\ result.stats[1][1] # result.stats[2][1]
  /\ result.stats[1][2] = 1
  /\ result.stats[2][2] = 0
  /\ LET parsed == ParsedTrees
     IN Transform(plugins[2], parsed.asts, parsed.sfcAST).count = 1

(***************************************************************************)
(* C9  All-or-nothing: when parsing fails or a plugin raises, the pass     *)
(* ends in an error, returns nothing, runs no later plugin and applies no  *)
(* replacement; a result is returned only when every step succeeded.       *)
(***************************************************************************)
FirstThrowing ==
  IF \E i \in 1..Len(plugins) : plugins[i].op = "throw"
    THEN CHOOSE i \in 1..Len(plugins) :
           plugins[i].op = "throw" /\ \A j \in 1..(i - 1) : plugins[j].op # "throw"
    ELSE 0

InputParses == ~ParsedTrees.threw

C9_AllOrNothing ==
  /\ error # "none" => pc = "error" /\ result = None
  /\ result # None
       => /\ pc = "done" /\ error = "none"
          /\ InputParses
          /\ FirstThrowing = 0
          /\ Len(result.stats) = Len(plugins)
  /\ error = "ParseError" => ~InputParses /\ stats = <<>> /\ ms.edits = <<>>
  /\ (pc \in {"vueCodemods", "tsCodemods"} /\ stats = <<>>) => InputParses
  /\ error = "PluginError" => FirstThrowing = Len(stats) + 1
  /\ FirstThrowing # 0
       => /\ Len(stats) < FirstThrowing
          /\ ms.edits = <<>>
          /\ pc \in {"transform", "transformVueFile", "transformTypescriptFile",
                     "vueCodemods", "tsCodemods", "error"}

C9_Witness ==
  /\ pc = "error"
  /\ error = "PluginError"
  /\ Len(plugins) = 2
  /\ plugins[1].op = "throw"
  /\ ChangesTrees(ParsedTrees, plugins[2])
  /\ stats = <<>>

(***************************************************************************)
(* C10  Every change resolves: for each change of the diff the corrected   *)
(* owner path leads to a snapshot node with a range; a change of a         *)
(* property of the root itself, met before root-changed is set, gives a    *)
(* record with the root's range.                                           *)
(***************************************************************************)
C10_EveryChangeResolves ==
  /\ (pc = "map" /\ Len(changedNodes) < Len(diff))
       => LET p == diff[Len(changedNodes) + 1]
              path == OwnerPath(p)
          IN range(IF rootNodeChanged \/ ChangesRoot(path, p) THEN originalTemplate
                   ELSE get(originalTemplate, path)).t # "undefined"
  /\ error # "TypeError"
====
